---------------------------- MODULE Spec2Model ----------------------------
(***************************************************************************)
(* A model of winregal (src/winregal/winregal.py): RegKey, a scoped        *)
(* handle over one registry key, with value lookup, child derivation,      *)
(* lazy enumeration, optionally recursive iteration and to_dict.           *)
(*                                                                         *)
(* The registry itself (winreg.OpenKey, CloseKey, QueryValueEx, EnumKey,   *)
(* EnumValue) is the environment: a finite tree of keys, each with an      *)
(* ordered list of values and an ordered list of sub-key names.            *)
(* Paths are sequences of segments; os.path.join appends segments and      *)
(* os.path.split(...)[-1] takes the last one.                              *)
(*                                                                         *)
(* Three specifications:                                                   *)
(*   Spec          : a caller using one RegKey on a registry that answers  *)
(*                   every call (but for keys it refuses to open)          *)
(*   SpecFaulty    : the same caller and program on a registry that        *)
(*                   refuses some enumeration and query calls              *)
(*   SpecConstruct : RegKey(path, hkey, deep) alone, over path strings     *)
(***************************************************************************)
EXTENDS Naturals, Sequences, FiniteSets, TLC

VARIABLES
    tree,     \* the registry content under the root key (fixed by Init)
    objs,     \* the RegKey objects the caller has constructed: <<[path, hkey, key, deep]>>
    handles,  \* native handles issued by OpenKey: <<[path, closes]>>
    scopes,   \* per caller object: handles of its entered, not yet exited scopes
    gen,      \* the caller's lazy sequence (a generator), if any
    out,      \* the items the generator has yielded so far
    probes,   \* the enumerate-at-index calls the generator has made so far
    call,     \* the running to_dict call: its activation stack
    ret       \* what the last call returned or raised

vars == <<tree, objs, handles, scopes, gen, out, probes, call, ret>>

(***************************************************************************)
(* Bounds of the model.                                                    *)
(***************************************************************************)
\* once this many native handles were issued the caller enters no scope and
\* starts no enumeration, iteration or to_dict any more
MaxOpens == 2

None == 0         \* self._key = None; native handles are 1, 2, ...

\* the value of the attribute `name` of the winreg module
Winreg(name) == "winreg." \o name

\* the root the caller's RegKey is constructed with: winreg.HKEY_CURRENT_USER
HKEY == Winreg("HKEY_CURRENT_USER")

(***************************************************************************)
(* The registry: a catalogue of small trees.                               *)
(***************************************************************************)
RegValue(name, data, data_type) == [name |-> name, data |-> data, type |-> data_type]

Node(vals, keys) == [values |-> vals, keys |-> keys]

\* values A = 1, B = "x" and a sub-key C with value D = 2
TreeExample ==
    [nodes |-> (<<>> :> Node(<<RegValue("A", "1", "REG_DWORD"),
                               RegValue("B", "x", "REG_SZ")>>, <<"C">>))
            @@ (<<"C">> :> Node(<<RegValue("D", "2", "REG_DWORD")>>, <<>>)),
     denied |-> {}, faults |-> {}]

\* a value and a sub-key that are both named X
TreeCollide ==
    [nodes |-> (<<>> :> Node(<<RegValue("X", "v", "REG_SZ")>>, <<"X">>))
            @@ (<<"X">> :> Node(<<RegValue("D", "2", "REG_DWORD")>>, <<>>)),
     denied |-> {}, faults |-> {}]

\* three levels, two siblings at the top: C (with C\F below it) and E
TreeDeep ==
    [nodes |-> (<<>> :> Node(<<RegValue("A", "1", "REG_DWORD")>>, <<"C", "E">>))
            @@ (<<"C">> :> Node(<<RegValue("D", "2", "REG_DWORD")>>, <<"F">>))
            @@ (<<"C", "F">> :> Node(<<RegValue("G", "g", "REG_SZ")>>, <<>>))
            @@ (<<"E">> :> Node(<<>>, <<>>)),
     denied |-> {}, faults |-> {}]

\* a key without values or sub-keys
TreeEmpty ==
    [nodes |-> (<<>> :> Node(<<>>, <<>>)), denied |-> {}, faults |-> {}]

\* C\P is listed by EnumKey but OpenKey on it is refused (access denied)
TreeDenied ==
    [nodes |-> (<<>> :> Node(<<RegValue("A", "1", "REG_DWORD")>>, <<"C">>))
            @@ (<<"C">> :> Node(<<RegValue("D", "2", "REG_DWORD")>>, <<"P">>))
            @@ (<<"C", "P">> :> Node(<<>>, <<>>)),
     denied |-> {<<"C", "P">>}, faults |-> {}]

\* a registry that fails in the middle of an enumeration, not for want of
\* entries: faults holds the calls <<primitive, path, index>> that are
\* refused.  The root has the values A, B and the sub-keys C, E; the probes
\* for B, for E and for the value D of C are refused, and so is the query
\* for the value A.
TreeFaulty ==
    [nodes |-> (<<>> :> Node(<<RegValue("A", "1", "REG_DWORD"),
                               RegValue("B", "x", "REG_SZ")>>, <<"C", "E">>))
            @@ (<<"C">> :> Node(<<RegValue("D", "2", "REG_DWORD")>>, <<>>))
            @@ (<<"E">> :> Node(<<>>, <<>>)),
     denied |-> {},
     faults |-> {<<"EnumValue", <<>>, 1>>, <<"EnumKey", <<>>, 1>>,
                 <<"EnumValue", <<"C">>, 0>>, <<"QueryValueEx", <<>>, "A">>}]

Trees == {TreeExample, TreeCollide, TreeDeep, TreeEmpty, TreeDenied}

\* the names the caller passes to get_value, get_sub_key and []
ArgNames == {"A", "C", "X", "Z"}

\* the paths the caller constructs its RegKey on: the root key, a sub-key of
\* some trees, and a key of no tree
InitPaths == {<<>>, <<"C">>, <<"Z">>}

(***************************************************************************)
(* Exceptions.  KeyNotOpenException derives from WinregalException, which  *)
(* derives from WindowsError; so do the failures of winreg itself.         *)
(***************************************************************************)
IsWindowsError(e) ==
    e \in {"WindowsError", "KeyNotOpenException", "UnknownHkeyException",
           "FileNotFoundError", "PermissionError"}

(***************************************************************************)
(* The winreg primitives, on the handle table hs.                          *)
(***************************************************************************)
IsLive(h, hs) == h \in 1..Len(hs) /\ hs[h].closes = 0

\* winreg.OpenKey(hkey, path): a fresh handle, or the failure
OpenKey(hkey, path, hs) ==
    IF path \notin DOMAIN tree.nodes
    THEN [h |-> None, hs |-> hs, exc |-> "FileNotFoundError"]
    ELSE IF path \in tree.denied
    THEN [h |-> None, hs |-> hs, exc |-> "PermissionError"]
    ELSE [h |-> Len(hs) + 1,
          hs |-> Append(hs, [path |-> path, closes |-> 0]),
          exc |-> ""]

\* winreg.CloseKey(h): CloseKey(None) does nothing
CloseKey(h, hs) ==
    IF h \in 1..Len(hs) THEN [hs EXCEPT ![h].closes = @ + 1] ELSE hs

IndexOfValue(vals, name) ==
    IF \E i \in 1..Len(vals) : vals[i].name = name
    THEN CHOOSE i \in 1..Len(vals) : vals[i].name = name
    ELSE 0

\* winreg.QueryValueEx(h, name): (data, type), or the failure (no such value,
\* or a call the registry refuses)
QueryValueEx(h, name, hs) ==
    IF h = None THEN [exc |-> "TypeError"]
    ELSE IF ~IsLive(h, hs) THEN [exc |-> "WindowsError"]
    ELSE IF <<"QueryValueEx", hs[h].path, name>> \in tree.faults
    THEN [exc |-> "PermissionError"]
    ELSE LET vals == tree.nodes[hs[h].path].values
             i == IndexOfValue(vals, name)
         IN  IF i = 0 THEN [exc |-> "FileNotFoundError"]
             ELSE [exc |-> "", data |-> vals[i].data, type |-> vals[i].type]

\* winreg.EnumKey(h, i), i counted from 0: the name, or WindowsError past the
\* end, or the failure of a call the registry refuses
EnumKey(h, i, hs) ==
    IF h = None THEN [exc |-> "TypeError"]
    ELSE IF ~IsLive(h, hs) THEN [exc |-> "WindowsError"]
    ELSE IF <<"EnumKey", hs[h].path, i>> \in tree.faults THEN [exc |-> "PermissionError"]
    ELSE LET keys == tree.nodes[hs[h].path].keys
         IN  IF i + 1 \in 1..Len(keys)
             THEN [exc |-> "", item |-> keys[i + 1]]
             ELSE [exc |-> "WindowsError"]

\* winreg.EnumValue(h, i): the (name, data, type) tuple, or WindowsError past the end
EnumValue(h, i, hs) ==
    IF h = None THEN [exc |-> "TypeError"]
    ELSE IF ~IsLive(h, hs) THEN [exc |-> "WindowsError"]
    ELSE IF <<"EnumValue", hs[h].path, i>> \in tree.faults THEN [exc |-> "PermissionError"]
    ELSE LET vals == tree.nodes[hs[h].path].values
         IN  IF i + 1 \in 1..Len(vals)
             THEN [exc |-> "", item |-> vals[i + 1]]
             ELSE [exc |-> "WindowsError"]

(***************************************************************************)
(* RegKey: construction, properties, __enter__ and __exit__.               *)
(***************************************************************************)
\* RegKey(path, hkey, deep) with an explicit hkey
NewRegKey(path, hkey, deep) ==
    [path |-> path, hkey |-> hkey, key |-> None, deep |-> deep]

\* a variant of the join that puts the sub-path first
PathJoinSwapped(path, sub_path) == sub_path \o path

\* os.path.join(self._path, sub_path)
PathJoin(path, sub_path) == path \o sub_path

(***************************************************************************)
(* Construction from a path string.  A string is held as the sequence of   *)
(* the segments between its separators; <<>> is the empty string, and an   *)
(* empty segment "" stands where two separators meet or the string begins  *)
(* or ends with one.                                                       *)
(***************************************************************************)
\* hkey=None, the default of the parameter
NoHkey == "None"

\* the HKEY_* attributes of winreg
HkeyNames ==
    {"HKEY_CURRENT_USER", "HKEY_CLASSES_ROOT", "HKEY_CURRENT_CONFIG", "HKEY_DYN_DATA",
     "HKEY_LOCAL_MACHINE", "HKEY_PERFORMANCE_DATA", "HKEY_USERS"}

\* RegKey.HKEY_MAP
HKEY_MAP ==
    (Winreg("HKEY_CURRENT_USER") :> "HKEY_CURRENT_USER")
        @@ (Winreg("HKEY_CLASSES_ROOT") :> "HKEY_CLASSES_ROOT")
        @@ (Winreg("HKEY_CURRENT_CONFIG") :> "HKEY_CURRENT_CONFIG")
        @@ (Winreg("HKEY_DYN_DATA") :> "HKEY_DYN_DATA")
        @@ (Winreg("HKEY_LOCAL_MACHINE") :> "HKEY_LOCAL_MACHINE")
        @@ (Winreg("HKEY_PERFORMANCE_DATA") :> "HKEY_PERFORMANCE_DATA")
        @@ (Winreg("HKEY_USERS") :> "HKEY_USERS")

\* other attributes of winreg: integer constants that are no roots, and
\* attributes that are no numbers at all
WinregInts == {"KEY_READ", "REG_SZ"}

WinregOthers == {"OpenKey", "error"}

\* getattr(winreg, name, None)
GetAttr(name) ==
    IF name \in HkeyNames \cup WinregInts \cup WinregOthers THEN Winreg(name) ELSE NoHkey

\* the two import branches: Python 2 (_winreg, number_type = long) and
\* Python 3 (winreg, number_type = int).  In Python 2 the HKEY_* constants are
\* long and the other integer constants are int; in Python 3 all are int.
Pythons == {"py2", "py3"}

\* isinstance(v, number_type)
IsNumber(py, v) ==
    \/ v \in {Winreg(n) : n \in HkeyNames}
    \/ py = "py3" /\ v \in {Winreg(n) : n \in WinregInts}

\* str.upper() on the segments the model uses
Upper(s) ==
    CASE s = "Hkey_Users" -> "HKEY_USERS"
      [] s = "hkey_current_user" -> "HKEY_CURRENT_USER"
      [] s = "key_read" -> "KEY_READ"
      [] s = "OpenKey" -> "OPENKEY"
      [] s = "Software" -> "SOFTWARE"
      [] OTHER -> s

\* path.split(os.path.sep): "".split(sep) is [""]
Split(path) == IF path = <<>> THEN <<"">> ELSE path

\* ntpath.join(a, p) for a segment p: the separator is put in only after a
\* non-empty path that does not end with one
Join2(a, p) ==
    IF a = <<>> THEN (IF p = "" THEN <<>> ELSE <<p>>)
    ELSE IF a[Len(a)] = "" THEN SubSeq(a, 1, Len(a) - 1) \o <<p>>
    ELSE Append(a, p)

\* os.path.join(*parts), parts not empty
RECURSIVE OsPathJoin(_)
OsPathJoin(parts) ==
    IF Len(parts) = 1 THEN Join2(<<>>, parts[1])
    ELSE Join2(OsPathJoin(SubSeq(parts, 1, Len(parts) - 1)), parts[Len(parts)])

\* RegKey.__init__(path, hkey, deep) under the Python py: the new object k and
\* its _hkey_name, or the exception.  os.path.join() without arguments is a
\* TypeError, and it is called before the root is looked up.
RegKeyInit(py, path, hkey, deep) ==
    IF hkey = NoHkey
    THEN LET split_path == Split(path)
             hkey_name == Upper(split_path[1])
             found == GetAttr(hkey_name)
         IN  IF Tail(split_path) = <<>> THEN [exc |-> "TypeError"]
             ELSE IF ~IsNumber(py, found) THEN [exc |-> "UnknownHkeyException"]
             ELSE [exc |-> "", hkey_name |-> hkey_name,
                   k |-> NewRegKey(OsPathJoin(Tail(split_path)), found, deep)]
    ELSE IF hkey \notin DOMAIN HKEY_MAP THEN [exc |-> "KeyError"]
    ELSE [exc |-> "", hkey_name |-> HKEY_MAP[hkey], k |-> NewRegKey(path, hkey, deep)]

\* a variant of name that takes the head of the path, not its tail
KeyNameHead(k) == IF k.path = <<>> THEN "" ELSE k.path[1]

\* RegKey.name: os.path.split(self.path)[-1]
KeyName(k) == IF k.path = <<>> THEN "" ELSE k.path[Len(k.path)]

\* a variant of __enter__ that does not re-raise the failure of OpenKey
RegEnterSwallow(k, hs) ==
    LET r == OpenKey(k.hkey, k.path, hs)
    IN  IF r.exc = ""
        THEN [k |-> [k EXCEPT !.key = r.h], hs |-> r.hs, exc |-> ""]
        ELSE [k |-> k, hs |-> hs, exc |-> ""]

\* __enter__: self._key = winreg.OpenKey(...); a failure is re-raised
RegEnter(k, hs) ==
    LET r == OpenKey(k.hkey, k.path, hs)
    IN  IF r.exc = ""
        THEN [k |-> [k EXCEPT !.key = r.h], hs |-> r.hs, exc |-> ""]
        ELSE [k |-> k, hs |-> hs, exc |-> r.exc]

\* a variant of __exit__ that closes the handle and keeps it in _key
RegExitKeepKey(k, hs) ==
    [k |-> k, hs |-> CloseKey(k.key, hs), suppress |-> FALSE]

\* a variant of __exit__ that forgets the handle without closing it
RegExitNoClose(k, hs) ==
    [k |-> [k EXCEPT !.key = None], hs |-> hs, suppress |-> FALSE]

\* __exit__: winreg.CloseKey(self._key); self._key = None; returns None,
\* so an exception raised in the block is not suppressed
RegExit(k, hs) ==
    [k |-> [k EXCEPT !.key = None], hs |-> CloseKey(k.key, hs), suppress |-> FALSE]

\* a variant of get_sub_key that does not hand its own deep on to the child
GetSubKeyNoInherit(k, sub_path, deep) ==
    IF k.key = None
    THEN [exc |-> "KeyNotOpenException"]
    ELSE [exc |-> "",
          key |-> [path |-> k.path \o sub_path, hkey |-> k.hkey, key |-> None,
                   deep |-> deep = "deep"]]

\* get_sub_key(sub_path, deep): deep = "inherit" stands for deep=None
GetSubKey(k, sub_path, deep) ==
    IF k.key = None
    THEN [exc |-> "KeyNotOpenException"]
    ELSE [exc |-> "",
          key |-> NewRegKey(PathJoin(k.path, sub_path), k.hkey,
                            IF deep = "inherit" THEN k.deep ELSE deep = "deep")]

\* get_value(name)
GetValue(k, name, hs) ==
    IF k.key = None
    THEN [exc |-> "KeyNotOpenException"]
    ELSE LET r == QueryValueEx(k.key, name, hs)
         IN  IF r.exc = ""
             THEN [exc |-> "", value |-> RegValue(name, r.data, r.type)]
             ELSE [exc |-> r.exc]

\* __getitem__(item): the value, else (on any WindowsError but
\* KeyNotOpenException) the sub-key
GetItem(k, item, hs) ==
    LET v == GetValue(k, item, hs)
    IN  IF v.exc = "" THEN [exc |-> "", kind |-> "value", value |-> v.value]
        ELSE IF v.exc = "KeyNotOpenException" THEN [exc |-> v.exc]
        ELSE IF IsWindowsError(v.exc)
        THEN LET s == GetSubKey(k, <<item>>, "inherit")
             IN  IF s.exc = "" THEN [exc |-> "", kind |-> "key", key |-> s.key]
                 ELSE [exc |-> s.exc]
        ELSE [exc |-> v.exc]

(***************************************************************************)
(* enum_keys and enum_values are generators: nothing of their body runs    *)
(* when they are called.  The first next() checks self._key and probes     *)
(* index 0; every later next() adds 1 to i and probes again.  Each probe   *)
(* reads self._key afresh.  A WindowsError of the probe ends the sequence; *)
(* any other exception leaves the generator.                               *)
(* The operators give the outcome of one next(): started says whether the  *)
(* generator has yielded before, i is the index of its last probe.         *)
(***************************************************************************)
\* a variant of enum_keys that starts at index 1
EnumKeysNextFromOne(k, started, i, hs) ==
    IF ~started /\ k.key = None
    THEN [kind |-> "raise", exc |-> "KeyNotOpenException", probed |-> <<>>]
    ELSE LET j == IF started THEN i + 1 ELSE 1
             r == EnumKey(k.key, j, hs)
         IN  IF r.exc = "" THEN [kind |-> "yield", item |-> r.item, i |-> j, probed |-> <<j>>]
             ELSE IF IsWindowsError(r.exc) THEN [kind |-> "stop", probed |-> <<j>>]
             ELSE [kind |-> "raise", exc |-> r.exc, probed |-> <<j>>]

EnumKeysNext(k, started, i, hs) ==
    IF ~started /\ k.key = None
    THEN [kind |-> "raise", exc |-> "KeyNotOpenException", probed |-> <<>>]
    ELSE LET j == IF started THEN i + 1 ELSE 0
             r == EnumKey(k.key, j, hs)
         IN  IF r.exc = "" THEN [kind |-> "yield", item |-> r.item, i |-> j, probed |-> <<j>>]
             ELSE IF IsWindowsError(r.exc) THEN [kind |-> "stop", probed |-> <<j>>]
             ELSE [kind |-> "raise", exc |-> r.exc, probed |-> <<j>>]

EnumValuesNext(k, started, i, hs) ==
    IF ~started /\ k.key = None
    THEN [kind |-> "raise", exc |-> "KeyNotOpenException", probed |-> <<>>]
    ELSE LET j == IF started THEN i + 1 ELSE 0
             r == EnumValue(k.key, j, hs)
         IN  IF r.exc = "" THEN [kind |-> "yield", item |-> r.item, i |-> j, probed |-> <<j>>]
             ELSE IF IsWindowsError(r.exc) THEN [kind |-> "stop", probed |-> <<j>>]
             ELSE [kind |-> "raise", exc |-> r.exc, probed |-> <<j>>]

(***************************************************************************)
(* What a call hands back to the caller.                                   *)
(***************************************************************************)
\* op(arg) on object o returned val (of the given kind), or raised exc, or is
\* still running
Returned(op, o, arg, kind, val) ==
    [op |-> op, obj |-> o, arg |-> arg, kind |-> kind, exc |-> "", val |-> val]

Raised(op, o, arg, exc) ==
    [op |-> op, obj |-> o, arg |-> arg, kind |-> "raise", exc |-> exc, val |-> <<>>]

Pending(op, o, arg) ==
    [op |-> op, obj |-> o, arg |-> arg, kind |-> "pending", exc |-> "", val |-> <<>>]

NoKey == [path |-> <<>>, hkey |-> "", key |-> None, deep |-> FALSE]

\* One activation of __iter__ or to_dict (or the single one of enum_keys,
\* enum_values): pc is the place in the code, vi and ki the indices of the
\* enum_values and enum_keys generators of its two loops, key the local key.
EmptyDict == [n \in {} |-> NoKey]

Frame(pc, keep) ==
    [pc |-> pc, vi |-> 0, ki |-> 0, key |-> NoKey, res |-> EmptyDict, keep |-> keep]

\* state: created (called, never advanced), suspended (at a yield), running,
\* raising (an exception is on its way out), done.
\* exc is the exception that ended it, if one did.  opened are the handles that
\* generators have opened in `with key`, before those of them that earlier
\* generators opened; whenKey is self._key at the time of the call.
NoGen == [fn |-> "none", obj |-> 0, state |-> "done", frames |-> <<>>, exc |-> "",
          opened |-> {}, before |-> {}, whenKey |-> None]

\* the to_dict call: state is idle (none is running), running or raising
NoCall == [state |-> "idle", obj |-> 0, frames |-> <<>>, exc |-> "", opened |-> {},
           before |-> {}, keep |-> FALSE]

Init ==
    /\ tree \in Trees
    /\ \E path \in InitPaths, deep \in BOOLEAN : objs = <<NewRegKey(path, HKEY, deep)>>
    /\ handles = <<>>
    /\ scopes = <<<<>>>>
    /\ gen = NoGen
    /\ out = <<>>
    /\ probes = <<>>
    /\ call = NoCall
    /\ ret = Returned("init", 1, "", "key", <<>>)

\* the caller has control: no call of its is on the way
Idle == call.state = "idle" /\ gen.state \notin {"running", "raising"}

\* the caller has control and holds no unfinished lazy sequence
Quiet == Idle /\ gen.state = "done"

\* the caller has control and has made no lazy sequence yet: its single reads
\* (get_value, get_sub_key, []) come before its first enumeration or iteration
Unused == Quiet /\ gen.fn = "none"

(***************************************************************************)
(* The caller's calls on an object o it holds.                             *)
(***************************************************************************)
\* o.__enter__()
Enter(o) ==
    /\ Idle
    /\ Len(handles) < MaxOpens
    /\ LET r == RegEnter(objs[o], handles)
       IN  /\ objs' = [objs EXCEPT ![o] = r.k]
           /\ handles' = r.hs
           /\ IF r.exc = ""
              THEN /\ scopes' = [scopes EXCEPT ![o] = Append(@, Len(r.hs))]
                   /\ ret' = Returned("enter", o, "", "self", <<>>)
              ELSE /\ scopes' = scopes
                   /\ ret' = Raised("enter", o, "", r.exc)
    /\ UNCHANGED <<tree, gen, out, probes, call>>

\* o.__exit__(...): ends the innermost scope entered on o; the result notes
\* whether _key was None already when it was called
Exit(o) ==
    /\ Idle
    /\ LET r == RegExit(objs[o], handles)
       IN  /\ objs' = [objs EXCEPT ![o] = r.k]
           /\ handles' = r.hs
           /\ scopes' = [scopes EXCEPT ![o] = IF @ = <<>> THEN @ ELSE SubSeq(@, 1, Len(@) - 1)]
           /\ ret' = Returned("exit", o, IF objs[o].key = None THEN "cleared" ELSE "",
                               "none", <<>>)
    /\ UNCHANGED <<tree, gen, out, probes, call>>

\* o.get_value(name)
CallGetValue(o, name) ==
    /\ Unused
    /\ LET r == GetValue(objs[o], name, handles)
       IN  ret' = IF r.exc = "" THEN Returned("get_value", o, name, "value", r.value)
                  ELSE Raised("get_value", o, name, r.exc)
    /\ UNCHANGED <<tree, objs, handles, scopes, gen, out, probes, call>>

\* o.get_sub_key(<<name>>, deep)
CallGetSubKey(o, name, deep) ==
    /\ Unused
    /\ LET r == GetSubKey(objs[o], <<name>>, deep)
           arg == [name |-> name, deep |-> deep]
       IN  ret' = IF r.exc = "" THEN Returned("get_sub_key", o, arg, "key", r.key)
                  ELSE Raised("get_sub_key", o, arg, r.exc)
    /\ UNCHANGED <<tree, objs, handles, scopes, gen, out, probes, call>>

\* o[name]
CallGetItem(o, name) ==
    /\ Unused
    /\ LET r == GetItem(objs[o], name, handles)
       IN  ret' = IF r.exc # "" THEN Raised("getitem", o, name, r.exc)
                  ELSE IF r.kind = "value" THEN Returned("getitem", o, name, "value", r.value)
                  ELSE Returned("getitem", o, name, "key", r.key)
    /\ UNCHANGED <<tree, objs, handles, scopes, gen, out, probes, call>>

(***************************************************************************)
(* Lazy sequences.  Calling enum_keys, enum_values or __iter__ only makes  *)
(* the generator; its code runs when the caller asks for items.            *)
(***************************************************************************)
NewGen(fn, o, pc) ==
    [fn |-> fn, obj |-> o, state |-> "created", frames |-> <<Frame(pc, FALSE)>>, exc |-> "",
     opened |-> gen.opened, before |-> gen.opened, whenKey |-> objs[o].key]

\* o.enum_keys(), o.enum_values(), iter(o)
CallLazy(o, fn) ==
    /\ Quiet
    /\ Len(handles) < MaxOpens
    /\ gen' = NewGen(fn, o, IF fn = "enum_keys" THEN "keys0" ELSE "values0")
    /\ out' = <<>>
    /\ probes' = <<>>
    /\ ret' = Returned(fn, o, "", "generator", <<>>)
    /\ UNCHANGED <<tree, objs, handles, scopes, call>>

\* next() on a finished generator: StopIteration, again and again
NextDone ==
    /\ Idle
    /\ gen.fn # "none"
    /\ gen.state = "done"
    /\ ret' = Raised("next", gen.obj, "again", "StopIteration")
    /\ UNCHANGED <<tree, objs, handles, scopes, gen, out, probes, call>>

\* next() on the generator of enum_keys or enum_values
NextEnum ==
    /\ Idle
    /\ gen.fn \in {"enum_keys", "enum_values"}
    /\ gen.state \in {"created", "suspended"}
    /\ LET f == gen.frames[1]
           started == gen.state = "suspended"
           r == IF gen.fn = "enum_keys"
                THEN EnumKeysNext(objs[gen.obj], started, f.ki, handles)
                ELSE EnumValuesNext(objs[gen.obj], started, f.vi, handles)
       IN  /\ probes' = probes \o r.probed
           /\ IF r.kind = "yield"
              THEN /\ gen' = [gen EXCEPT !.state = "suspended",
                                         !.frames = <<[f EXCEPT !.ki = r.i, !.vi = r.i]>>]
                   /\ out' = Append(out, [kind |-> gen.fn, val |-> r.item])
                   /\ ret' = Returned("next", gen.obj, "", gen.fn, r.item)
              ELSE /\ gen' = [gen EXCEPT !.state = "done", !.frames = <<>>,
                                         !.exc = IF r.kind = "stop" THEN "" ELSE r.exc]
                   /\ out' = out
                   /\ ret' = Raised("next", gen.obj, "",
                                    IF r.kind = "stop" THEN "StopIteration" ELSE r.exc)
    /\ UNCHANGED <<tree, objs, handles, scopes, call>>

(***************************************************************************)
(* __iter__.  next() resumes the innermost activation; the activations     *)
(* below it wait at `yield item` inside `with key`.  The steps between     *)
(* two yields are taken one at a time, and the caller waits for them.      *)
(*   values0, values : in `for value_tuple in self.enum_values()`          *)
(*   keys0, keys     : in `for key_path in self.enum_keys()`               *)
(*   with            : at `yield key`, before `if self._deep: with key`    *)
(*   body            : inside `with key`, iterating the child              *)
(*   close           : the child is exhausted, leaving `with key`          *)
(***************************************************************************)
Top(frames) == frames[Len(frames)]

Pop(frames) == SubSeq(frames, 1, Len(frames) - 1)

\* self of the activation at depth j: the caller's object, or the key of the
\* activation below
IterSelf(j) == IF j = 1 THEN objs[gen.obj] ELSE gen.frames[j - 1].key

NextIter ==
    /\ Idle
    /\ gen.fn = "iter"
    /\ gen.state \in {"created", "suspended"}
    /\ gen' = [gen EXCEPT !.state = "running"]
    /\ ret' = Pending("next", gen.obj, "")
    /\ UNCHANGED <<tree, objs, handles, scopes, out, probes, call>>

IterRunning == call.state = "idle" /\ gen.fn = "iter" /\ gen.state = "running"

\* for value_tuple in self.enum_values(): yield RegValue(*value_tuple)
IterValues ==
    /\ IterRunning
    /\ Top(gen.frames).pc \in {"values0", "values"}
    /\ LET n == Len(gen.frames)
           f == gen.frames[n]
           r == EnumValuesNext(IterSelf(n), f.pc = "values", f.vi, handles)
       IN  /\ probes' = probes \o r.probed
           /\ IF r.kind = "yield"
              THEN LET v == RegValue(r.item.name, r.item.data, r.item.type)
                   IN  /\ gen' = [gen EXCEPT !.state = "suspended",
                                             !.frames[n].pc = "values",
                                             !.frames[n].vi = r.i]
                       /\ out' = Append(out, [kind |-> "value", val |-> v])
                       /\ ret' = Returned("next", gen.obj, "", "value", v)
              ELSE IF r.kind = "stop"
              THEN /\ gen' = [gen EXCEPT !.frames[n].pc = "keys0"]
                   /\ UNCHANGED <<out, ret>>
              ELSE /\ gen' = [gen EXCEPT !.state = "raising", !.exc = r.exc]
                   /\ UNCHANGED <<out, ret>>
    /\ UNCHANGED <<tree, objs, handles, scopes, call>>

\* for key_path in self.enum_keys(): key = self.get_sub_key(key_path); yield key
\* and, when enum_keys is exhausted, the end of this activation
IterKeys ==
    /\ IterRunning
    /\ Top(gen.frames).pc \in {"keys0", "keys"}
    /\ LET n == Len(gen.frames)
           f == gen.frames[n]
           r == EnumKeysNext(IterSelf(n), f.pc = "keys", f.ki, handles)
       IN  /\ probes' = probes \o r.probed
           /\ IF r.kind = "yield"
              THEN LET s == GetSubKey(IterSelf(n), <<r.item>>, "inherit")
                   IN  IF s.exc = ""
                       THEN /\ gen' = [gen EXCEPT !.state = "suspended",
                                                  !.frames[n].pc = "with",
                                                  !.frames[n].ki = r.i,
                                                  !.frames[n].key = s.key]
                            /\ out' = Append(out, [kind |-> "key", val |-> s.key])
                            /\ ret' = Returned("next", gen.obj, "", "key", s.key)
                       ELSE /\ gen' = [gen EXCEPT !.state = "raising", !.exc = s.exc]
                            /\ UNCHANGED <<out, ret>>
              ELSE IF r.kind = "stop"
              THEN IF n = 1
                   THEN /\ gen' = [gen EXCEPT !.state = "done", !.frames = <<>>]
                        /\ ret' = Raised("next", gen.obj, "", "StopIteration")
                        /\ out' = out
                   ELSE /\ gen' = [gen EXCEPT !.frames = [Pop(@) EXCEPT ![n - 1].pc = "close"]]
                        /\ UNCHANGED <<out, ret>>
              ELSE /\ gen' = [gen EXCEPT !.state = "raising", !.exc = r.exc]
                   /\ UNCHANGED <<out, ret>>
    /\ UNCHANGED <<tree, objs, handles, scopes, call>>

\* resumed after `yield key`: if self._deep: with key: for item in key: ...
IterWith ==
    /\ IterRunning
    /\ Top(gen.frames).pc = "with"
    /\ LET n == Len(gen.frames)
           f == gen.frames[n]
       IN  IF IterSelf(n).deep
           THEN LET e == RegEnter(f.key, handles)
                IN  IF e.exc = ""
                    THEN /\ gen' = [gen EXCEPT
                                      !.frames = Append([@ EXCEPT ![n].pc = "body",
                                                                  ![n].key = e.k],
                                                        Frame("values0", FALSE)),
                                      !.opened = @ \cup {Len(e.hs)}]
                         /\ handles' = e.hs
                    ELSE /\ gen' = [gen EXCEPT !.state = "raising", !.exc = e.exc]
                         /\ handles' = handles
           ELSE /\ gen' = [gen EXCEPT !.frames[n].pc = "keys"]
                /\ handles' = handles
    /\ UNCHANGED <<tree, objs, scopes, out, probes, call, ret>>

\* the child is exhausted: key.__exit__ at the end of `with key`
IterClose ==
    /\ IterRunning
    /\ Top(gen.frames).pc = "close"
    /\ LET n == Len(gen.frames)
           x == RegExit(gen.frames[n].key, handles)
       IN  /\ gen' = [gen EXCEPT !.frames[n].pc = "keys", !.frames[n].key = x.k]
           /\ handles' = x.hs
    /\ UNCHANGED <<tree, objs, scopes, out, probes, call, ret>>

\* close() on the suspended generator of iter(o): what happens when the
\* caller leaves its loop early and drops the generator.  GeneratorExit is
\* raised at the yield where the innermost activation waits.
CloseIter ==
    /\ Idle
    /\ gen.fn = "iter"
    /\ gen.state = "suspended"
    /\ gen' = [gen EXCEPT !.state = "raising", !.exc = "GeneratorExit"]
    /\ ret' = Pending("close", gen.obj, "")
    /\ UNCHANGED <<tree, objs, handles, scopes, out, probes, call>>

\* what the caller gets when the exception has left the outermost activation:
\* close() returns on GeneratorExit, next() raises anything else
IterEnded ==
    IF gen.exc = "GeneratorExit" THEN Returned("close", gen.obj, "", "none", <<>>)
    ELSE Raised("next", gen.obj, "", gen.exc)

\* a variant of the unwinding that leaves `with key` without key.__exit__
IterUnwindNoExit ==
    /\ call.state = "idle"
    /\ gen.fn = "iter"
    /\ gen.state = "raising"
    /\ IF Len(gen.frames) = 1
       THEN /\ gen' = [gen EXCEPT !.state = "done", !.frames = <<>>]
            /\ ret' = IterEnded
       ELSE /\ gen' = [gen EXCEPT !.frames = Pop(@)]
            /\ ret' = ret
    /\ UNCHANGED <<tree, objs, handles, scopes, out, probes, call>>

\* an exception leaves the innermost activation; an activation it reaches
\* inside `with key` runs key.__exit__, which may not suppress it
IterUnwind ==
    /\ call.state = "idle"
    /\ gen.fn = "iter"
    /\ gen.state = "raising"
    /\ LET n == Len(gen.frames)
           f == gen.frames[n]
           x == RegExit(f.key, handles)
       IN  IF f.pc = "body" /\ x.suppress
           THEN /\ gen' = [gen EXCEPT !.state = "running", !.exc = "",
                                      !.frames[n].pc = "keys", !.frames[n].key = x.k]
                /\ handles' = x.hs
                /\ ret' = ret
           ELSE /\ handles' = IF f.pc = "body" THEN x.hs ELSE handles
                /\ IF n = 1
                   THEN /\ gen' = [gen EXCEPT !.state = "done", !.frames = <<>>]
                        /\ ret' = IterEnded
                   ELSE /\ gen' = [gen EXCEPT !.frames = Pop(@)]
                        /\ ret' = ret
    /\ UNCHANGED <<tree, objs, scopes, out, probes, call>>

(***************************************************************************)
(* to_dict.  A call runs to its end before the caller does anything else;  *)
(* its activations are those of the recursion `key.to_dict()`.             *)
(*   values0, values : in `for value_tuple in self.enum_values()`          *)
(*   keys0, keys     : in `for key_path in self.enum_keys()`               *)
(*   body            : inside `with key`, in key.to_dict()                 *)
(*   close           : res[key.name] is stored, leaving `with key`         *)
(***************************************************************************)
\* a variant of res[name] = v that keeps an entry that is already there
DictSetDefault(res, name, v) ==
    [n \in DOMAIN res \cup {name} |-> IF n \in DOMAIN res THEN res[n] ELSE v]

\* res[name] = v
DictSet(res, name, v) ==
    [n \in DOMAIN res \cup {name} |-> IF n = name THEN v ELSE res[n]]

\* the entry to_dict stores for a value
ValueEntry(value, keep_type) ==
    IF keep_type THEN [kind |-> "RegValue", val |-> value]
    ELSE [kind |-> "data", val |-> value.data]

\* the activation of `key.to_dict()` made by an activation with keep_type:
\* the recursive call passes no argument, keep_type is its default
ChildCall(keep_type) == Frame("values0", FALSE)

DictSelf(j) == IF j = 1 THEN objs[call.obj] ELSE call.frames[j - 1].key

\* o.to_dict(keep_type)
CallToDict(o, keep_type) ==
    /\ Quiet
    /\ Len(handles) < MaxOpens
    /\ call' = [state |-> "running", obj |-> o, frames |-> <<Frame("values0", keep_type)>>,
                exc |-> "", opened |-> call.opened, before |-> call.opened,
                keep |-> keep_type]
    /\ ret' = Pending("to_dict", o, "")
    /\ UNCHANGED <<tree, objs, handles, scopes, gen, out, probes>>

DictRunning == call.state = "running"

\* for value_tuple in self.enum_values(): res[value.name] = value or value.data
DictValues ==
    /\ DictRunning
    /\ Top(call.frames).pc \in {"values0", "values"}
    /\ LET n == Len(call.frames)
           f == call.frames[n]
           r == EnumValuesNext(DictSelf(n), f.pc = "values", f.vi, handles)
       IN  IF r.kind = "yield"
           THEN LET value == RegValue(r.item.name, r.item.data, r.item.type)
                IN  call' = [call EXCEPT
                               !.frames[n].pc = "values",
                               !.frames[n].vi = r.i,
                               !.frames[n].res = DictSet(@, value.name,
                                                         ValueEntry(value, f.keep))]
           ELSE IF r.kind = "stop"
           THEN call' = [call EXCEPT !.frames[n].pc = "keys0"]
           ELSE call' = [call EXCEPT !.state = "raising", !.exc = r.exc]
    /\ UNCHANGED <<tree, objs, handles, scopes, gen, out, probes, ret>>

\* for key_path in self.enum_keys(): key = self.get_sub_key(key_path, deep=False);
\* with key: ... key.to_dict(); and, when enum_keys is exhausted, return res
DictKeys ==
    /\ DictRunning
    /\ Top(call.frames).pc \in {"keys0", "keys"}
    /\ LET n == Len(call.frames)
           f == call.frames[n]
           r == EnumKeysNext(DictSelf(n), f.pc = "keys", f.ki, handles)
       IN  IF r.kind = "yield"
           THEN LET s == GetSubKey(DictSelf(n), <<r.item>>, "shallow")
                    e == RegEnter(s.key, handles)
                IN  IF s.exc # ""
                    THEN /\ call' = [call EXCEPT !.state = "raising", !.exc = s.exc]
                         /\ UNCHANGED <<handles, ret>>
                    ELSE IF e.exc # ""
                    THEN /\ call' = [call EXCEPT !.state = "raising", !.exc = e.exc,
                                                 !.frames[n].ki = r.i]
                         /\ UNCHANGED <<handles, ret>>
                    ELSE /\ call' = [call EXCEPT
                                       !.frames = Append([@ EXCEPT ![n].pc = "body",
                                                                   ![n].ki = r.i,
                                                                   ![n].key = e.k],
                                                         ChildCall(f.keep)),
                                       !.opened = @ \cup {Len(e.hs)}]
                         /\ handles' = e.hs
                         /\ ret' = ret
           ELSE IF r.kind = "stop"
           THEN IF n = 1
                THEN /\ call' = [call EXCEPT !.state = "idle", !.frames = <<>>]
                     /\ ret' = Returned("to_dict", call.obj, "", "dict", f.res)
                     /\ handles' = handles
                ELSE LET up == call.frames[n - 1]
                     IN  /\ call' = [call EXCEPT
                                       !.frames = [Pop(@) EXCEPT
                                            ![n - 1].pc = "close",
                                            ![n - 1].res =
                                                DictSet(@, KeyName(up.key),
                                                        [kind |-> "dict", val |-> f.res])]]
                         /\ UNCHANGED <<handles, ret>>
           ELSE /\ call' = [call EXCEPT !.state = "raising", !.exc = r.exc]
                /\ UNCHANGED <<handles, ret>>
    /\ UNCHANGED <<tree, objs, scopes, gen, out, probes>>

\* key.__exit__ at the end of `with key`
DictClose ==
    /\ DictRunning
    /\ Top(call.frames).pc = "close"
    /\ LET n == Len(call.frames)
           x == RegExit(call.frames[n].key, handles)
       IN  /\ call' = [call EXCEPT !.frames[n].pc = "keys", !.frames[n].key = x.k]
           /\ handles' = x.hs
    /\ UNCHANGED <<tree, objs, scopes, gen, out, probes, ret>>

\* an exception leaves the innermost activation; an activation it reaches
\* inside `with key` runs key.__exit__, which may not suppress it
DictUnwind ==
    /\ call.state = "raising"
    /\ LET n == Len(call.frames)
           f == call.frames[n]
           x == RegExit(f.key, handles)
       IN  IF f.pc = "body" /\ x.suppress
           THEN /\ call' = [call EXCEPT !.state = "running", !.exc = "",
                                        !.frames[n].pc = "keys", !.frames[n].key = x.k]
                /\ handles' = x.hs
                /\ ret' = ret
           ELSE /\ handles' = IF f.pc = "body" THEN x.hs ELSE handles
                /\ IF n = 1
                   THEN /\ call' = [call EXCEPT !.state = "idle", !.frames = <<>>]
                        /\ ret' = Raised("to_dict", call.obj, "", call.exc)
                   ELSE /\ call' = [call EXCEPT !.frames = Pop(@)]
                        /\ ret' = ret
    /\ UNCHANGED <<tree, objs, scopes, gen, out, probes>>

Next ==
    \/ \E o \in 1..Len(objs) : Enter(o)
    \/ \E o \in 1..Len(objs) : Exit(o)
    \/ \E o \in 1..Len(objs), name \in ArgNames : CallGetValue(o, name)
    \/ \E o \in 1..Len(objs), name \in ArgNames, deep \in {"inherit", "deep", "shallow"} :
           CallGetSubKey(o, name, deep)
    \/ \E o \in 1..Len(objs), name \in ArgNames : CallGetItem(o, name)
    \/ \E o \in 1..Len(objs), fn \in {"enum_keys", "enum_values", "iter"} : CallLazy(o, fn)
    \/ NextDone
    \/ NextEnum
    \/ NextIter
    \/ IterValues
    \/ IterKeys
    \/ IterWith
    \/ IterClose
    \/ IterUnwind
    \/ CloseIter
    \/ \E o \in 1..Len(objs), keep_type \in BOOLEAN : CallToDict(o, keep_type)
    \/ DictValues
    \/ DictKeys
    \/ DictClose
    \/ DictUnwind

Spec == Init /\ [][Next]_vars

(***************************************************************************)
(* The same program on a registry whose enumeration calls can fail.        *)
(***************************************************************************)
InitFaulty ==
    /\ tree = TreeFaulty
    /\ \E path \in InitPaths, deep \in BOOLEAN : objs = <<NewRegKey(path, HKEY, deep)>>
    /\ handles = <<>>
    /\ scopes = <<<<>>>>
    /\ gen = NoGen
    /\ out = <<>>
    /\ probes = <<>>
    /\ call = NoCall
    /\ ret = Returned("init", 1, "", "key", <<>>)

SpecFaulty == InitFaulty /\ [][Next]_vars

(***************************************************************************)
(* Construction on its own: the caller's RegKey(path, hkey, deep) for the  *)
(* path strings and hkey arguments below, under either Python.             *)
(***************************************************************************)
\* the longest path string, in segments
MaxSegs == 3

Segments == {"HKEY_CURRENT_USER", "Hkey_Users", "KEY_READ", "OpenKey", "Software", ""}

\* the strings of up to MaxSegs segments (<<"">> is no string: "" is <<>>)
PathStrings ==
    (UNION {[1..n -> Segments] : n \in 0..MaxSegs}) \ {<<"">>}

\* hkey: omitted, two roots, an integer that is no root
HkeyArgs == {NoHkey, Winreg("HKEY_CURRENT_USER"), Winreg("HKEY_LOCAL_MACHINE"),
             Winreg("KEY_READ")}

InitConstruct ==
    /\ tree = TreeEmpty
    /\ objs = <<>>
    /\ handles = <<>>
    /\ scopes = <<>>
    /\ gen = NoGen
    /\ out = <<>>
    /\ probes = <<>>
    /\ call = NoCall
    /\ \E py \in Pythons, path \in PathStrings, hkey \in HkeyArgs, deep \in BOOLEAN :
           ret = Pending("RegKey", 0, [py |-> py, path |-> path, hkey |-> hkey,
                                       deep |-> deep])

\* RegKey(path, hkey, deep): the object, or the exception and no object
Construct ==
    /\ ret.op = "RegKey"
    /\ ret.kind = "pending"
    /\ LET a == ret.arg
           r == RegKeyInit(a.py, a.path, a.hkey, a.deep)
       IN  IF r.exc = ""
           THEN /\ objs' = <<r.k>>
                /\ scopes' = <<<<>>>>
                /\ ret' = Returned("RegKey", 1, a, "key", [hkey_name |-> r.hkey_name])
           ELSE /\ ret' = Raised("RegKey", 0, a, r.exc)
                /\ UNCHANGED <<objs, scopes>>
    /\ UNCHANGED <<tree, handles, gen, out, probes, call>>

NextConstruct == Construct

SpecConstruct == InitConstruct /\ [][NextConstruct]_vars


(***************************************************************************)
(* Properties.                                                             *)
(***************************************************************************)
Range(seq) == {seq[i] : i \in 1..Len(seq)}

\* the operations that read through a handle
ReadOps == {"get_value", "getitem", "get_sub_key", "enum_keys", "enum_values", "iter",
            "to_dict"}

\* the last call was the read operation op, it is over, and the handle was
\* closed when it was made (the only calls that change _key are __enter__ and
\* __exit__, and they are then the last call)
ReadOnClosed(ops) ==
    /\ ret.op \in ops
    /\ ret.kind # "pending"
    /\ objs[ret.obj].key = None

\* C1: on a closed handle each of get_value, [], get_sub_key, enum_keys,
\* enum_values, __iter__ and to_dict fails with KeyNotOpenException when it is
\* invoked.
C1_ClosedReadsFail ==
    ReadOnClosed(ReadOps) => ret.exc = "KeyNotOpenException"

\* C1, as far as the code goes: the four operations that are not generators
\* fail when invoked; [] never falls back to a sub-key.
C1_EagerReadsFail ==
    ReadOnClosed({"get_value", "getitem", "get_sub_key", "to_dict"})
        => ret.exc = "KeyNotOpenException"

\* C1, as far as the code goes: a generator whose first item is asked for
\* while the handle is closed fails with KeyNotOpenException.
C1_FirstNextFails ==
    (/\ ret.op = "next"
     /\ ret.arg = ""
     /\ ret.kind # "pending"
     /\ objs[ret.obj].key = None
     /\ out = <<>>
     /\ gen.state = "done")
        => ret.exc = "KeyNotOpenException"

\* C2: _key is not None exactly when a successful __enter__ has not yet been
\* followed by its matching __exit__ (scopes nest: an __exit__ matches the
\* innermost __enter__ still open); a failing __enter__ raises and leaves
\* _key None.
C2_KeyIffInScope ==
    /\ \A o \in 1..Len(objs) : (objs[o].key # None) <=> (scopes[o] # <<>>)
    /\ (ret.op = "enter" /\ ret.kind = "raise")
           => (objs[ret.obj].key = None /\ IsWindowsError(ret.exc))

\* C2, as far as the code goes: _key is not None exactly when the last of the
\* object's __enter__ (successful) and __exit__ calls was an __enter__, and it
\* is then the live handle that __enter__ got.
C2_KeyIffLastEnter ==
    \A o \in 1..Len(objs) :
        /\ objs[o].key # None => (IsLive(objs[o].key, handles) /\ scopes[o] # <<>>
                                  /\ objs[o].key = scopes[o][Len(scopes[o])])
        /\ (ret.op = "enter" /\ ret.obj = o /\ ret.kind = "self") => objs[o].key # None
        /\ (ret.op = "exit" /\ ret.obj = o) => objs[o].key = None

\* the handles the caller's own __enter__ calls got
CallerHandles == (1..Len(handles)) \ (gen.opened \cup call.opened)

\* every scope of the caller that is over has had its handle closed once
CallerScopesClosed ==
    \A h \in CallerHandles : h \notin Range(scopes[1]) => handles[h].closes = 1

\* every `with key` of __iter__ and to_dict that is over has had its handle
\* closed once
InnerScopesClosed ==
    /\ call.state = "idle" => \A h \in call.opened : handles[h].closes = 1
    /\ gen.state = "done" => \A h \in gen.opened : handles[h].closes = 1

\* a key below path that OpenKey refuses
DeniedBelow(path) ==
    \E p \in tree.denied :
        Len(p) > Len(path) /\ SubSeq(p, 1, Len(path)) = path

\* a failure inside `with key` comes out of to_dict and of the iteration
FailureNotSuppressed ==
    /\ (/\ ret.op = "to_dict"
        /\ ret.kind # "pending"
        /\ objs[ret.obj].key # None
        /\ DeniedBelow(objs[ret.obj].path))
           => ret.exc = "PermissionError"
    /\ (gen.fn = "iter" /\ gen.state = "done" /\ gen.exc # "")
           => (ret.op = "next" => ret.exc \in {gen.exc, "StopIteration"})

\* C3: every handle that a scoped open got is closed exactly once when its
\* scope is left, normally or by a failure, and the failure is not suppressed.
C3_ScopedOpensClosedOnce ==
    /\ \A h \in 1..Len(handles) : handles[h].closes <= 1
    /\ CallerScopesClosed
    /\ InnerScopesClosed
    /\ FailureNotSuppressed

\* C3, as far as the code goes: the same for the scopes of __iter__ and
\* to_dict; a scope of the caller that is over has had its handle closed once
\* unless the object was entered again (and got a later handle) inside it.
C3_SingleUseScopesClosedOnce ==
    /\ \A h \in 1..Len(handles) : handles[h].closes <= 1
    /\ \A h \in CallerHandles :
           (h \notin Range(scopes[1]) /\ handles[h].closes = 0)
               => \E g \in CallerHandles : g > h /\ handles[g].path = handles[h].path
    /\ InnerScopesClosed
    /\ FailureNotSuppressed

HasValue(path, name) ==
    /\ path \in DOMAIN tree.nodes
    /\ \E i \in 1..Len(tree.nodes[path].values) : tree.nodes[path].values[i].name = name

HasSubKey(path, name) ==
    /\ path \in DOMAIN tree.nodes
    /\ name \in Range(tree.nodes[path].keys)

\* C4: o[name] on an open key gives the RegValue if there is a value of that
\* name, else an unopened RegKey if there is a sub-key of that name, else it
\* fails with the not-found failure.
C4_GetItem ==
    (ret.op = "getitem" /\ objs[ret.obj].key # None) =>
        LET path == objs[ret.obj].path
        IN  IF HasValue(path, ret.arg)
            THEN ret.kind = "value" /\ ret.val.name = ret.arg
            ELSE IF HasSubKey(path, ret.arg)
            THEN /\ ret.kind = "key"
                 /\ ret.val.key = None
                 /\ ret.val.path = path \o <<ret.arg>>
            ELSE ret.kind = "raise" /\ ret.exc = "FileNotFoundError"

\* C4, as far as the code goes: a value gives the RegValue; anything else
\* gives an unopened RegKey, whether or not the sub-key exists.
C4_GetItemFallsBack ==
    (ret.op = "getitem" /\ objs[ret.obj].key # None) =>
        LET path == objs[ret.obj].path
        IN  IF HasValue(path, ret.arg)
            THEN ret.kind = "value" /\ ret.val.name = ret.arg
            ELSE /\ ret.kind = "key"
                 /\ ret.val.key = None
                 /\ ret.val.path = path \o <<ret.arg>>

(***************************************************************************)
(* What the registry holds below a path, as a nested mapping: an entry for *)
(* every value and for every sub-key.  leaf says what stands for a value.  *)
(***************************************************************************)
ValueNames(path) == {tree.nodes[path].values[i].name : i \in 1..Len(tree.nodes[path].values)}

SubKeyNames(path) == Range(tree.nodes[path].keys)

ValueNamed(path, name) ==
    LET vals == tree.nodes[path].values
    IN  vals[CHOOSE i \in 1..Len(vals) : vals[i].name = name]

RECURSIVE Mapping(_, _)
Mapping(path, leaf) ==
    [n \in ValueNames(path) \cup SubKeyNames(path) |->
        IF n \in SubKeyNames(path)
        THEN [kind |-> "dict", val |-> Mapping(path \o <<n>>, leaf)]
        ELSE IF leaf = "RegValue"
        THEN [kind |-> "RegValue", val |-> ValueNamed(path, n)]
        ELSE [kind |-> "data", val |-> ValueNamed(path, n).data]]

\* the keys at and below path
RECURSIVE SubTree(_)
SubTree(path) ==
    {path} \cup UNION {SubTree(path \o <<n>>) : n \in SubKeyNames(path)}

\* no key at or below path has two values, or a value and a sub-key, of one name
NoCollision(path) ==
    \A p \in SubTree(path) :
        /\ ValueNames(p) \cap SubKeyNames(p) = {}
        /\ Cardinality(ValueNames(p)) = Len(tree.nodes[p].values)

\* the last call was to_dict(keep_type) on an open handle and it is over
ToDictOver(keep_type) ==
    /\ ret.op = "to_dict"
    /\ ret.kind # "pending"
    /\ call.keep = keep_type
    /\ objs[ret.obj].key # None

\* C5: to_dict() on the open root of a tree without name collisions returns
\* the nested mapping of the whole subtree: value name -> data, child leaf
\* name -> the child's mapping, at every depth.
C5_ToDictIsMapping ==
    (/\ ToDictOver(FALSE)
     /\ NoCollision(objs[ret.obj].path)
     /\ ~DeniedBelow(objs[ret.obj].path))
        => /\ ret.kind = "dict"
           /\ ret.val = Mapping(objs[ret.obj].path, "data")

Data(d) == [kind |-> "data", val |-> d]

\* {A: 1, B: "x", C: {D: 2}}
ExampleMapping ==
    ("A" :> Data("1")) @@ ("B" :> Data("x"))
        @@ ("C" :> [kind |-> "dict", val |-> ("D" :> Data("2"))])

C5_Witness ==
    /\ ToDictOver(FALSE)
    /\ tree = TreeExample
    /\ ret.kind = "dict"
    /\ ret.val = ExampleMapping

\* three levels: {A: 1, C: {D: 2, F: {G: "g"}}, E: {}}
C5_WitnessDeep ==
    /\ ToDictOver(FALSE)
    /\ tree = TreeDeep
    /\ objs[ret.obj].path = <<>>
    /\ ret.kind = "dict"
    /\ ret.val["C"].val["F"].val = ("G" :> Data("g"))
    /\ DOMAIN ret.val = {"A", "C", "E"}

\* C6: to_dict(keep_type=True) returns the same shape with the RegValue as
\* the leaf for every value of the subtree, those under sub-keys included.
C6_KeepTypeEverywhere ==
    (/\ ToDictOver(TRUE)
     /\ NoCollision(objs[ret.obj].path)
     /\ ~DeniedBelow(objs[ret.obj].path))
        => /\ ret.kind = "dict"
           /\ ret.val = Mapping(objs[ret.obj].path, "RegValue")

\* C6, as far as the code goes: the values of the key itself are RegValues,
\* everything under its sub-keys is the mapping of to_dict().
C6_KeepTypeTopOnly ==
    (/\ ToDictOver(TRUE)
     /\ NoCollision(objs[ret.obj].path)
     /\ ~DeniedBelow(objs[ret.obj].path))
        => /\ ret.kind = "dict"
           /\ LET path == objs[ret.obj].path
              IN  ret.val = [n \in DOMAIN Mapping(path, "data") |->
                               IF n \in SubKeyNames(path)
                               THEN Mapping(path, "data")[n]
                               ELSE Mapping(path, "RegValue")[n]]

\* the names that a value and a sub-key of the key at path share
Collisions(path) == ValueNames(path) \cap SubKeyNames(path)

\* C7: when a key has a value and a sub-key of the same name X, the X entry
\* of to_dict() is the sub-key's mapping: the values are all written before
\* any sub-key, so the sub-key overwrites the value.
C7_SubKeyOverwritesValue ==
    /\ (ToDictOver(FALSE) /\ ret.kind = "dict") =>
           \A n \in Collisions(objs[ret.obj].path) :
               ret.val[n] = [kind |-> "dict",
                             val |-> Mapping(objs[ret.obj].path \o <<n>>, "data")]
    /\ \A j \in 1..Len(call.frames) :
           call.frames[j].pc \in {"values0", "values"} =>
               \A n \in DOMAIN call.frames[j].res : call.frames[j].res[n].kind # "dict"

C7_Witness ==
    /\ ToDictOver(FALSE)
    /\ tree = TreeCollide
    /\ ret.kind = "dict"
    /\ Collisions(objs[ret.obj].path) = {"X"}
    /\ ret.val = ("X" :> [kind |-> "dict", val |-> ("D" :> Data("2"))])

(***************************************************************************)
(* What an iteration from a path is to yield: the values of the key, then  *)
(* each sub-key, followed at once by its own items when deep.              *)
(***************************************************************************)
IsPrefix(a, b) == Len(a) <= Len(b) /\ SubSeq(b, 1, Len(a)) = a

ValueItems(path) ==
    [i \in 1..Len(tree.nodes[path].values) |->
        [kind |-> "value", val |-> tree.nodes[path].values[i]]]

\* the RegKey as it is when it is yielded: not open
KeyItem(path, deep) ==
    [kind |-> "key", val |-> [path |-> path, hkey |-> HKEY, key |-> None, deep |-> deep]]

RECURSIVE PreOrder(_, _), PreOrderFrom(_, _, _)
PreOrder(path, deep) == ValueItems(path) \o PreOrderFrom(path, deep, 1)

PreOrderFrom(path, deep, i) ==
    IF i > Len(tree.nodes[path].keys) THEN <<>>
    ELSE LET child == path \o <<tree.nodes[path].keys[i]>>
         IN  <<KeyItem(child, deep)>>
                 \o (IF deep THEN PreOrder(child, deep) ELSE <<>>)
                 \o PreOrderFrom(path, deep, i + 1)

Exhausted == gen.state = "done" /\ gen.exc = ""

\* C8: the iteration yields the RegValues of the key, then its sub-keys as
\* unopened RegKeys; when not deep nothing else; when deep every descendant
\* once, each RegKey right before its own items, at every depth.
C8_IterYieldsPreOrder ==
    gen.fn = "iter" =>
        LET self == objs[gen.obj]
        IN  IF self.path \in DOMAIN tree.nodes
            THEN /\ IsPrefix(out, PreOrder(self.path, self.deep))
                 /\ Exhausted => out = PreOrder(self.path, self.deep)
                 /\ (gen.state = "done"
                       /\ gen.exc \notin {"", "KeyNotOpenException", "TypeError",
                                          "GeneratorExit"})
                        => (self.deep /\ DeniedBelow(self.path))
            ELSE out = <<>>

\* deep, three levels: A, C, D, C\F, G, E
C8_Witness ==
    /\ gen.fn = "iter"
    /\ Exhausted
    /\ tree = TreeDeep
    /\ Len(out) = 6
    /\ out[4] = KeyItem(<<"C", "F">>, TRUE)
    /\ out[5].val.name = "G"
    /\ out[6] = KeyItem(<<"E">>, TRUE)

\* not deep: the direct children only
C8_WitnessShallow ==
    /\ gen.fn = "iter"
    /\ Exhausted
    /\ tree = TreeDeep
    /\ objs[gen.obj].path = <<>>
    /\ Len(out) = 3

\* the handles this iteration has opened, and those of them still open
IterOpened == gen.opened \ gen.before

IterLive == {h \in IterOpened : handles[h].closes = 0}

\* the place in out where the RegKey of path was yielded, 0 if it was not
YieldedAt(path) ==
    IF \E i \in 1..Len(out) : out[i].kind = "key" /\ out[i].val.path = path
    THEN CHOOSE i \in 1..Len(out) : out[i].kind = "key" /\ out[i].val.path = path
    ELSE 0

\* C9: in a deep iteration a child is opened only after it was yielded and is
\* closed before the next sibling is derived, so the handles the iteration
\* holds open are one chain of ancestors; at exhaustion all of them are closed
\* and the handle the iteration started on is still open.
C9_OpenHandlesAreAChain ==
    gen.fn = "iter" =>
        /\ \A h \in IterOpened : YieldedAt(handles[h].path) > 0
        /\ \A h \in IterLive :
               \A i \in 1..Len(out) :
                   (i > YieldedAt(handles[h].path) /\ out[i].kind = "key")
                       => (/\ Len(out[i].val.path) > Len(handles[h].path)
                           /\ IsPrefix(handles[h].path, out[i].val.path))
        /\ \A h1, h2 \in IterLive :
               h1 # h2 => (/\ Len(handles[h1].path) # Len(handles[h2].path)
                           /\ \/ IsPrefix(handles[h1].path, handles[h2].path)
                              \/ IsPrefix(handles[h2].path, handles[h1].path))
        /\ Exhausted => \A h \in IterOpened : handles[h].closes = 1
        /\ (Exhausted /\ ret.op = "next" /\ ret.arg = "")
               => IsLive(objs[gen.obj].key, handles)

\* the whole of TreeDeep was walked: three children opened and closed
C9_Witness ==
    /\ gen.fn = "iter"
    /\ Exhausted
    /\ ret.op = "next"
    /\ ret.arg = ""
    /\ Cardinality(IterOpened) = 3
    /\ \A h \in IterOpened : handles[h].closes = 1
    /\ IsLive(objs[gen.obj].key, handles)

\* two handles of the iteration open at once: C and C\F
C9_WitnessChain ==
    /\ gen.fn = "iter"
    /\ Cardinality(IterLive) = 2

\* what the registry lists for the key at path
Listed(fn, path) ==
    IF fn = "enum_keys" THEN tree.nodes[path].keys ELSE tree.nodes[path].values

\* C10: enum_keys and enum_values probe the indices 0, 1, 2, ... in order,
\* yield the n entries the registry lists, in its order, each once, and then
\* end: the failure of the probe past the end is not raised, not even when
\* more items are asked for after the end.
C10_EnumProbesInOrder ==
    gen.fn \in {"enum_keys", "enum_values"} =>
        LET self == objs[gen.obj]
        IN  /\ \A i \in 1..Len(probes) : probes[i] = i - 1
            /\ Len(probes) \in {Len(out), Len(out) + 1}
            /\ gen.exc \in {"", "KeyNotOpenException", "TypeError"}
            /\ IF self.path \in DOMAIN tree.nodes
               THEN LET list == Listed(gen.fn, self.path)
                    IN  /\ Len(out) <= Len(list)
                        /\ \A i \in 1..Len(out) : out[i] = [kind |-> gen.fn, val |-> list[i]]
                        /\ Exhausted => /\ Len(out) = Len(list)
                                        /\ Len(probes) = Len(list) + 1
                                        /\ ret.op = "next" => ret.exc = "StopIteration"
               ELSE out = <<>>

\* the two sub-keys of TreeDeep were listed, and a further item was asked for
C10_Witness ==
    /\ gen.fn = "enum_keys"
    /\ Exhausted
    /\ tree = TreeDeep
    /\ out = <<[kind |-> "enum_keys", val |-> "C"], [kind |-> "enum_keys", val |-> "E"]>>
    /\ probes = <<0, 1, 2>>
    /\ ret.op = "next"
    /\ ret.arg = "again"
    /\ ret.exc = "StopIteration"

(***************************************************************************)
(* Construction.                                                           *)
(***************************************************************************)
\* RegKey(...) is over
Constructed == ret.op = "RegKey" /\ ret.kind # "pending"

\* the first segment of the path string, as the caller wrote it
FirstSegment(path) == Split(path)[1]

\* the string whose segments are segs
Rejoin(segs) == IF segs = <<"">> THEN <<>> ELSE segs

\* the root is unknown: an hkey that is not in the table, or, without hkey, a
\* first segment that is not the name of a root in any letter case
UnknownRoot(a) ==
    IF a.hkey # NoHkey THEN a.hkey \notin DOMAIN HKEY_MAP
    ELSE Upper(FirstSegment(a.path)) \notin {HKEY_MAP[v] : v \in DOMAIN HKEY_MAP}

\* C11: whenever the root is unknown (an explicit hkey that is not in
\* HKEY_MAP, or no hkey and a first segment that is not the name of a root,
\* the name of another integer constant of winreg included) the construction
\* fails with UnknownHkeyException and makes no object.
C11_UnknownRootRejected ==
    (Constructed /\ UnknownRoot(ret.arg))
        => (ret.exc = "UnknownHkeyException" /\ objs = <<>>)

\* C11, as far as the code goes: an unknown root never gives an object under
\* Python 2; under Python 3 the name of another integer constant does, and
\* the exception is UnknownHkeyException only for a first segment, followed by
\* a separator, that names no number of winreg.
C11_UnknownRootOutcomes ==
    (Constructed /\ UnknownRoot(ret.arg)) =>
        LET a == ret.arg
        IN  IF a.hkey # NoHkey THEN ret.exc = "KeyError" /\ objs = <<>>
            ELSE IF Len(Split(a.path)) = 1 THEN ret.exc = "TypeError" /\ objs = <<>>
            ELSE IF a.py = "py3" /\ Upper(FirstSegment(a.path)) \in WinregInts
            THEN ret.kind = "key" /\ objs[1].hkey \notin DOMAIN HKEY_MAP
            ELSE ret.exc = "UnknownHkeyException" /\ objs = <<>>

\* C12: for a path string whose first segment is the name of a root in any
\* letter case (the name alone included) RegKey(path) succeeds; its hkey is the
\* root whose name in HKEY_MAP is the first segment but for letter case, its
\* hkey_name is the first segment upper-cased, its path is the string of the
\* remaining segments; and RegKey(that path, that hkey) gives the same three.
C12_RootQualifiedPath ==
    (Constructed /\ ret.arg.hkey = NoHkey /\ ~UnknownRoot(ret.arg)) =>
        LET a == ret.arg
            rest == Rejoin(Tail(Split(a.path)))
        IN  /\ ret.kind = "key"
            /\ objs[1].hkey \in DOMAIN HKEY_MAP
            /\ Upper(HKEY_MAP[objs[1].hkey]) = Upper(FirstSegment(a.path))
            /\ ret.val.hkey_name = Upper(FirstSegment(a.path))
            /\ objs[1].path = rest
            /\ LET e == RegKeyInit(a.py, rest, objs[1].hkey, a.deep)
               IN  /\ e.exc = ""
                   /\ e.k = objs[1]
                   /\ e.hkey_name = ret.val.hkey_name

\* C12, as far as the code goes: the same for the path strings that have a
\* separator after the root name and no empty segment before their last.
C12_PlainRootQualifiedPath ==
    (/\ Constructed
     /\ ret.arg.hkey = NoHkey
     /\ ~UnknownRoot(ret.arg)
     /\ Len(ret.arg.path) > 1
     /\ \A i \in 2..(Len(ret.arg.path) - 1) : ret.arg.path[i] # "") =>
        LET a == ret.arg
            rest == Rejoin(Tail(Split(a.path)))
        IN  /\ ret.kind = "key"
            /\ Upper(HKEY_MAP[objs[1].hkey]) = Upper(FirstSegment(a.path))
            /\ ret.val.hkey_name = Upper(FirstSegment(a.path))
            /\ objs[1].path = rest
            /\ LET e == RegKeyInit(a.py, rest, objs[1].hkey, a.deep)
               IN  e.exc = "" /\ e.k = objs[1] /\ e.hkey_name = ret.val.hkey_name

(***************************************************************************)
(* get_sub_key.                                                            *)
(***************************************************************************)
\* C13: get_sub_key(sub_path, deep) on an open handle returns a new RegKey
\* that is not open, with the hkey of the parent, the parent's path joined
\* with sub_path, and deep as given (an explicit False on a deep parent
\* included) or else the parent's; the call opens no key and leaves the
\* parent's hkey, path, deep and handle as they were.
C13_GetSubKeyDerives ==
    [][(ret'.op = "get_sub_key" /\ objs[ret'.obj].key # None) =>
           LET parent == objs[ret'.obj]
               child == ret'.val
               deep == ret'.arg.deep
           IN  /\ ret'.kind = "key"
               /\ child.key = None
               /\ child.hkey = parent.hkey
               /\ child.path = parent.path \o <<ret'.arg.name>>
               /\ child.deep = (IF deep = "inherit" THEN parent.deep ELSE deep = "deep")
               /\ handles' = handles
               /\ objs' = objs]_vars

\* get_sub_key("A", deep=False) on the open deep key C
C13_Witness ==
    /\ ret.op = "get_sub_key"
    /\ ret.kind = "key"
    /\ IsLive(objs[ret.obj].key, handles)
    /\ objs[ret.obj].deep
    /\ objs[ret.obj].path = <<"C">>
    /\ ret.arg = [name |-> "A", deep |-> "shallow"]
    /\ ret.val = [path |-> <<"C", "A">>, hkey |-> HKEY, key |-> None, deep |-> FALSE]

\* the flag is inherited when deep is omitted
C13_WitnessInherit ==
    /\ ret.op = "get_sub_key"
    /\ ret.kind = "key"
    /\ objs[ret.obj].deep
    /\ ret.arg.deep = "inherit"
    /\ ret.val.deep

(***************************************************************************)
(* Failures inside to_dict.                                                *)
(***************************************************************************)
\* the handles the last to_dict call has opened
ToDictOpened == call.opened \ call.before

\* C14: when a key below the one to_dict is called on cannot be opened (by
\* this call or by the to_dict of a descendant), the failure comes out of the
\* call and no mapping is returned, every handle the call has opened is
\* closed by then, and the handle it was called on is still open.
C14_ToDictFailurePropagates ==
    (/\ ret.op = "to_dict"
     /\ ret.kind # "pending"
     /\ objs[ret.obj].key # None
     /\ DeniedBelow(objs[ret.obj].path))
        => /\ ret.kind = "raise"
           /\ ret.exc = "PermissionError"
           /\ call.frames = <<>>
           /\ \A h \in ToDictOpened : handles[h].closes = 1
           /\ IsLive(objs[ret.obj].key, handles)

\* to_dict on the root of TreeDenied: C was opened, C\P refused inside the
\* to_dict of C, C closed again
C14_Witness ==
    /\ ret.op = "to_dict"
    /\ ret.exc = "PermissionError"
    /\ tree = TreeDenied
    /\ objs[ret.obj].path = <<>>
    /\ \E h \in ToDictOpened : handles[h].path = <<"C">> /\ handles[h].closes = 1
    /\ IsLive(objs[ret.obj].key, handles)

\* to_dict on C itself: the first `with key` fails, nothing was opened
C14_WitnessDirect ==
    /\ ret.op = "to_dict"
    /\ ret.exc = "PermissionError"
    /\ objs[ret.obj].path = <<"C">>
    /\ ToDictOpened = {}
    /\ IsLive(objs[ret.obj].key, handles)

(***************************************************************************)
(* Failures of the enumeration calls.                                      *)
(***************************************************************************)
\* the primitive that fn enumerates with
Primitive(fn) == IF fn = "enum_keys" THEN "EnumKey" ELSE "EnumValue"

\* the entries of the key at path that are listed before the first call the
\* registry refuses
ListedBeforeFault(fn, path) ==
    LET list == Listed(fn, path)
        bad == {i \in 0..Len(list) : <<Primitive(fn), path, i>> \in tree.faults}
    IN  IF bad = {} THEN list
        ELSE SubSeq(list, 1, CHOOSE i \in bad : \A j \in bad : i <= j)

\* C15: a failure of EnumKey or EnumValue other than the one past the last
\* entry is not swallowed: enum_keys, enum_values, the iteration and to_dict
\* never end normally with less than the registry holds.
C15_OnlyExhaustionSwallowed ==
    /\ (gen.fn \in {"enum_keys", "enum_values"} /\ Exhausted
           /\ objs[gen.obj].path \in DOMAIN tree.nodes)
           => Len(out) = Len(Listed(gen.fn, objs[gen.obj].path))
    /\ (gen.fn = "iter" /\ Exhausted /\ objs[gen.obj].path \in DOMAIN tree.nodes)
           => out = PreOrder(objs[gen.obj].path, objs[gen.obj].deep)
    /\ (ToDictOver(FALSE) /\ ret.kind = "dict")
           => ret.val = Mapping(objs[ret.obj].path, "data")

\* C15, as far as the code goes: a refused call ends enum_keys and enum_values
\* like the end of the list does; no generator and no to_dict ever ends with
\* the PermissionError of the refused call (only get_value raises one).
C15_FaultsEndTheSequence ==
    /\ (gen.fn \in {"enum_keys", "enum_values"} /\ Exhausted
           /\ objs[gen.obj].path \in DOMAIN tree.nodes)
           => out = [i \in 1..Len(ListedBeforeFault(gen.fn, objs[gen.obj].path)) |->
                        [kind |-> gen.fn,
                         val |-> ListedBeforeFault(gen.fn, objs[gen.obj].path)[i]]]
    /\ gen.exc # "PermissionError"
    /\ call.exc # "PermissionError"
    /\ ret.exc = "PermissionError" => ret.op = "get_value"

(***************************************************************************)
(* __exit__ on a handle that is not open.                                  *)
(***************************************************************************)
\* C16: __exit__ on a handle that was never opened, or right after another
\* __exit__, finds _key None, does not fail, closes no native handle a second
\* time and leaves _key None.
C16_ExitOnClearedIsNoOp ==
    [][(ret'.op = "exit" /\ (handles = <<>> \/ ret.op = "exit")) =>
           /\ objs[ret'.obj].key = None
           /\ ret'.kind = "none"
           /\ handles' = handles
           /\ objs'[ret'.obj].key = None
           /\ \A h \in 1..Len(handles') : handles'[h].closes <= 1]_vars

\* opened, closed, and closed again: the one handle was closed once
C16_Witness ==
    /\ ret.op = "exit"
    /\ ret.arg = "cleared"
    /\ Len(handles) = 1
    /\ handles[1].closes = 1
    /\ objs[ret.obj].key = None

\* closed without ever having been opened
C16_WitnessNeverOpened ==
    /\ ret.op = "exit"
    /\ ret.arg = "cleared"
    /\ handles = <<>>
    /\ objs[ret.obj].key = None

(***************************************************************************)
(* [] when get_value fails.                                                *)
(***************************************************************************)
\* the registry refuses the query for the value name of the key at path
QueryRefused(path, name) == <<"QueryValueEx", path, name>> \in tree.faults

\* C17: o[name] gives a RegKey only when get_value failed because there is no
\* value of that name; when get_value fails otherwise (the registry refuses
\* the query) that failure comes out of o[name] and no RegKey is returned.
C17_FallbackOnlyWhenAbsent ==
    (ret.op = "getitem" /\ objs[ret.obj].key # None) =>
        /\ ret.kind = "key" => ~HasValue(objs[ret.obj].path, ret.arg)
        /\ QueryRefused(objs[ret.obj].path, ret.arg)
               => (ret.kind = "raise" /\ ret.exc = "PermissionError")

\* C17, as far as the code goes: whatever WindowsError get_value fails with,
\* o[name] gives an unopened RegKey; it gives the RegValue when the query
\* succeeds, and never raises on an open handle.
C17_AnyFailureFallsBack ==
    (ret.op = "getitem" /\ objs[ret.obj].key # None) =>
        LET path == objs[ret.obj].path
        IN  IF HasValue(path, ret.arg) /\ ~QueryRefused(path, ret.arg)
            THEN ret.kind = "value" /\ ret.val.name = ret.arg
            ELSE /\ ret.kind = "key"
                 /\ ret.val.key = None
                 /\ ret.val.path = path \o <<ret.arg>>

(***************************************************************************)
(* An iteration that is left early.                                        *)
(***************************************************************************)
\* the generator of iter(o) was closed before it was exhausted, and the
\* close is over
Abandoned == gen.fn = "iter" /\ gen.state = "done" /\ gen.exc = "GeneratorExit"

NullProbe == "TypeError" \in {gen.exc, call.exc, ret.exc}

\* C19: however the caller's __enter__ and __exit__ fall between the steps of
\* a generator of enum_keys, enum_values or the iteration, no winreg primitive
\* is called with None (a generator advanced after __exit__ fails with
\* KeyNotOpenException first), and a generator made while the handle was
\* closed yields nothing and fails with KeyNotOpenException, also when the
\* handle is opened before its first item is asked for.
C19_GeneratorsCheckTheHandle ==
    /\ ~NullProbe
    /\ (gen.fn # "none" /\ gen.whenKey = None) =>
           /\ out = <<>>
           /\ gen.state = "done" => gen.exc = "KeyNotOpenException"

\* C19, as far as the code goes: the handle is checked once, when the first
\* item is asked for.  A first next() on a closed handle raises
\* KeyNotOpenException without a probe; a primitive is called with None only
\* by a generator that has yielded before.
C19_CheckedAtFirstItemOnly ==
    /\ (gen.fn # "none" /\ gen.state = "done" /\ out = <<>>
           /\ gen.exc \notin {"", "PermissionError"})
           => (gen.exc = "KeyNotOpenException" /\ probes = <<>>)
    /\ gen.exc = "TypeError" => out # <<>>
    /\ call.exc # "TypeError"

(***************************************************************************)
(* __enter__ and __exit__ in any order.                                    *)
(***************************************************************************)
\* C20: whatever the sequence of __enter__ and __exit__ calls on the object,
\* whenever its _key is None every handle that OpenKey gave it has been
\* passed to CloseKey, and none more than once.
C20_NoHandleLeaked ==
    /\ \A h \in 1..Len(handles) : handles[h].closes <= 1
    /\ \A o \in 1..Len(objs) :
           objs[o].key = None => \A h \in CallerHandles : handles[h].closes = 1

\* C20, as far as the code goes: no handle is closed twice, and the handles
\* never passed to CloseKey are the one in _key and those that a later
\* __enter__ on the object has overwritten there.
C20_LeakOnlyByReopen ==
    /\ \A h \in 1..Len(handles) : handles[h].closes <= 1
    /\ \A h \in CallerHandles :
           handles[h].closes = 0 =>
               \/ objs[1].key = h
               \/ \E g \in CallerHandles : g > h

=============================================================================
